---- MODULE Spec2Model ----
(***************************************************************************)
(* load_lipo (deepchem/molnet/load_function/lipo_datasets.py): the         *)
(* Lipophilicity loader as a state machine.  A call walks through the      *)
(* statements of load_lipo one step at a time; the data directory (the raw *)
(* CSV file and the cache of featurized, split and normalized datasets) is *)
(* the shared state.                                                       *)
(***************************************************************************)
EXTENDS Integers, Sequences, FiniteSets, TLC

(* ------------------------------ bounds -------------------------------- *)

\* Number of load_lipo calls in one behaviour.
MaxCalls == 2

\* Number of rows of Lipophilicity.csv.
NumRecords == 3

\* The callers of load_lipo; one after the other, the first one calls.
Procs == {"p1", "p2"}
Caller == "p1"

\* Python's None, as an argument value.
PyNone == "<None>"

\* A local variable with no binding yet.
Unbound == "<unbound>"

\* A dataset slot that holds None (a dataset is a sequence of examples).
NoneDataset == [none |-> TRUE]

\* Values of the featurizer argument the callers try.  The first two are
\* names the loader knows, the last one is not.
FeaturizerInputs == {"ECFP", "Raw", "ECFP_mean_unmoved"}

\* Values of the split argument the callers try.
SplitInputs == {"index", "random", PyNone, "bogus"}

(* --------------------------- pure functions --------------------------- *)

\* str(split)
Str(split) == IF split = PyNone THEN "None" ELSE split

\* dir_name without the branch on move_mean.
DirName_NoSuffix(featurizer, split, move_mean) ==
  "lipo/" \o featurizer \o "/" \o Str(split)

\* dir_name, then save_dir = os.path.join(data_dir, dir_name); data_dir is
\* the same prefix for every call and is left out.
DirName(featurizer, split, move_mean) ==
  IF move_mean
  THEN "lipo/" \o featurizer \o "/" \o Str(split)
  ELSE "lipo/" \o featurizer \o "_mean_unmoved/" \o Str(split)

\* Every save_dir a call of the model can compute.
AllDirs ==
  {DirName(f, s, m) : f \in FeaturizerInputs, s \in SplitInputs, m \in BOOLEAN}

\* The task list of another loader (the Delaney solubility dataset), as a
\* copy of that loader would leave it.
Lipo_tasks_Delaney == <<"measured log solubility in mols per litre">>

\* Lipo_tasks
Lipo_tasks == <<"exp">>

\* The if/elif chain that replaces the featurizer name by a featurizer
\* object; a name the chain does not know falls through and stays a string.
FeaturizerObject(featurizer) ==
  CASE featurizer = "ECFP" -> [class |-> "CircularFingerprint", size |-> 1024]
    [] featurizer = "GraphConv" -> [class |-> "ConvMolFeaturizer", size |-> 0]
    [] featurizer = "Weave" -> [class |-> "WeaveFeaturizer", size |-> 0]
    [] featurizer = "Raw" -> [class |-> "RawFeaturizer", size |-> 0]
    [] OTHER -> [class |-> "str", size |-> 0]

\* The keys of the splitters dictionary.
SplitterNames == {"index", "random", "scaffold"}

\* The rows of Lipophilicity.csv: a smiles string (its row number stands for
\* it) and the measured value exp.
CsvRows == [i \in 1..NumRecords |-> [smiles |-> i, exp |-> i * i]]

\* An exact label value num / sqrt(rad); a raw label y is y / sqrt(1).
RawLabel(y) == [num |-> y, rad |-> 1]

\* CSVLoader.featurize: one example per row, the features computed by the
\* featurizer object, the label read from the task column.
FeaturizeFile(obj, rows) ==
  [i \in 1..Len(rows) |->
     [id |-> rows[i].smiles, X |-> <<obj.class, rows[i].smiles>>,
      y |-> RawLabel(rows[i].exp)]]

RECURSIVE SumOver(_, _)
SumOver(seq, i) == IF i = 0 THEN 0 ELSE seq[i] + SumOver(seq, i - 1)

\* NormalizationTransformer(transform_y=True, dataset=ds, move_mean=mm): the
\* statistics of the labels of ds (count, sum, sum of squares: mean is
\* y_sum / y_n, variance is y_sumsq / y_n - mean^2).
FitNormalization(ds, move_mean) ==
  LET ys == [i \in 1..Len(ds) |-> ds[i].y.num]
      sq == [i \in 1..Len(ds) |-> ds[i].y.num * ds[i].y.num]
  IN [transform_y |-> TRUE, move_mean |-> move_mean, y_n |-> Len(ds),
      y_sum |-> SumOver(ys, Len(ds)), y_sumsq |-> SumOver(sq, Len(ds))]

\* transformer.transform(ds): y becomes (y - mean) / std, or y / std when
\* move_mean is false; with mean = sum/n and std = sqrt(n*sumsq - sum^2)/n
\* that is (n*y - sum) / sqrt(n*sumsq - sum^2), resp. n*y / sqrt(...).
TransformDataset(t, ds) ==
  [i \in 1..Len(ds) |->
     [ds[i] EXCEPT !.y =
        [num |-> IF t.move_mean THEN t.y_n * ds[i].y.num - t.y_sum
                 ELSE t.y_n * ds[i].y.num,
         rad |-> t.y_n * t.y_sumsq - t.y_sum * t.y_sum]]]

\* The shuffles a RandomSplitter is given here: of the n! permutations of
\* 1..n, the n rotations.
Shuffles(n) == {[i \in 1..n |-> ((i + k - 1) % n) + 1] : k \in 0..(n - 1)}

\* The order in which a splitter lays out the examples before cutting.
SplitOrders(name, n) ==
  CASE name = "index" -> {[i \in 1..n |-> i]}
    [] name = "random" -> Shuffles(n)
    [] name = "scaffold" -> {[i \in 1..n |-> n + 1 - i]}

\* splitter.train_valid_test_split(dataset): 80% train, 10% valid, 10% test
\* of the examples in the splitter's order.
TrainValidTestSplit(ds, order) ==
  LET n == Len(ds)
      tc == (8 * n) \div 10
      vc == (9 * n) \div 10
      laid == [i \in 1..n |-> ds[order[i]]]
  IN [train |-> SubSeq(laid, 1, tc), valid |-> SubSeq(laid, tc + 1, vc),
      test |-> SubSeq(laid, vc + 1, n)]

\* Cache entries: nothing at the path, a damaged directory, or what
\* save_dataset_to_disk wrote.
Missing == [state |-> "missing"]
Corrupt == [state |-> "corrupt"]

\* deepchem.utils.save.load_dataset_from_disk(save_dir)
LoadDatasetFromDisk(store, save_dir) ==
  IF store[save_dir].state = "ok"
  THEN [loaded |-> TRUE,
        all_dataset |-> <<store[save_dir].train, store[save_dir].valid,
                          store[save_dir].test>>,
        transformers |-> store[save_dir].transformers]
  ELSE [loaded |-> FALSE, all_dataset |-> <<>>, transformers |-> <<>>]

\* deepchem.utils.save.save_dataset_to_disk(save_dir, train, valid, test,
\* transformers)
SaveDatasetToDisk(store, save_dir, train, valid, test, transformers) ==
  [store EXCEPT ![save_dir] =
     [state |-> "ok", train |-> train, valid |-> valid, test |-> test,
      transformers |-> transformers]]

(* ------------------------------- state -------------------------------- *)

VARIABLES
  dataset_file,  \* whether Lipophilicity.csv is in the data directory
  cache,         \* the cache store: save_dir -> entry
  writer,        \* history: the arguments of the call that wrote an entry
  calls,         \* number of calls started
  lastCall,      \* history: the reload call that returned last, nothing since
  pc,            \* per caller: position in load_lipo
  args,          \* per caller: featurizer, split, reload, move_mean
  loc,           \* per caller: the local variables
  ret,           \* per caller: what the call returned or raised
  trace,         \* history, per caller: the collaborator calls made so far
  cache0         \* history, per caller: the cache store when the call began

vars == <<dataset_file, cache, writer, calls, lastCall, pc, args, loc, ret,
          trace, cache0>>

NoArgs == [featurizer |-> "", split |-> "", reload |-> FALSE,
           move_mean |-> FALSE, given |-> FALSE]

NoLocals == [save_dir |-> Unbound, dataset |-> <<>>, train |-> <<>>,
             valid |-> <<>>, test |-> <<>>, transformers |-> <<>>]

NoRet == [status |-> "none"]

NoCall == [args |-> NoArgs, ret |-> NoRet, trace |-> <<>>]

NoCache == [d \in AllDirs |-> Missing]

Init ==
  /\ dataset_file \in BOOLEAN
  /\ cache = NoCache
  /\ writer = [d \in AllDirs |-> NoArgs]
  /\ calls = 0
  /\ lastCall = NoCall
  /\ pc = [p \in Procs |-> "idle"]
  /\ args = [p \in Procs |-> NoArgs]
  /\ loc = [p \in Procs |-> NoLocals]
  /\ ret = [p \in Procs |-> NoRet]
  /\ trace = [p \in Procs |-> <<>>]
  /\ cache0 = [p \in Procs |-> NoCache]

(* ------------------------------ actions ------------------------------- *)

\* The value a call returns.
Returned(tasks, all_dataset, transformers) ==
  [status |-> "returned", tasks |-> tasks, all_dataset |-> all_dataset,
   transformers |-> transformers]

\* An exception leaving load_lipo (nothing in it catches one).
Raised(error) == [status |-> "raised", error |-> error]

\* Callers do not overlap: load_lipo is synchronous.
Call(p, featurizer, split, reload, move_mean) ==
  /\ \A q \in Procs : pc[q] = "idle"
  /\ calls < MaxCalls
  /\ calls' = calls + 1
  /\ args' = [args EXCEPT ![p] =
       [featurizer |-> featurizer, split |-> split, reload |-> reload,
        move_mean |-> move_mean, given |-> TRUE]]
  /\ loc' = [loc EXCEPT ![p] =
       [NoLocals EXCEPT !.save_dir =
          IF reload THEN DirName(featurizer, split, move_mean) ELSE Unbound]]
  /\ ret' = [ret EXCEPT ![p] = NoRet]
  /\ trace' = [trace EXCEPT ![p] = <<>>]
  /\ cache0' = [cache0 EXCEPT ![p] = cache]
  /\ pc' = [pc EXCEPT ![p] = "check_file"]
  /\ UNCHANGED <<dataset_file, cache, writer, lastCall>>

\* if not os.path.exists(dataset_file):
CheckFile(p) ==
  /\ pc[p] = "check_file"
  /\ trace' = [trace EXCEPT ![p] = Append(@, "exists")]
  /\ pc' = [pc EXCEPT ![p] = IF dataset_file THEN "probe" ELSE "download"]
  /\ UNCHANGED <<dataset_file, cache, writer, calls, lastCall, args, loc, ret,
                 cache0>>

\* deepchem.utils.download_url(...) puts the file in the data directory.
Download(p) ==
  /\ pc[p] = "download"
  /\ trace' = [trace EXCEPT ![p] = Append(@, "download")]
  /\ dataset_file' = TRUE
  /\ pc' = [pc EXCEPT ![p] = "probe"]
  /\ UNCHANGED <<cache, writer, calls, lastCall, args, loc, ret, cache0>>

\* ... or fails, and the error leaves load_lipo.
DownloadFails(p) ==
  /\ pc[p] = "download"
  /\ trace' = [trace EXCEPT ![p] = Append(@, "download")]
  /\ ret' = [ret EXCEPT ![p] = Raised("IOError")]
  /\ pc' = [pc EXCEPT ![p] = "raised"]
  /\ UNCHANGED <<dataset_file, cache, writer, calls, lastCall, args, loc,
                 cache0>>

\* Probe without the test of loaded: the call goes on to compute whatever
\* the cache read found.
Probe_IgnoresLoaded(p) ==
  /\ pc[p] = "probe"
  /\ trace' = IF args[p].reload
              THEN [trace EXCEPT ![p] = Append(@, "probe")]
              ELSE trace
  /\ pc' = [pc EXCEPT ![p] = "featurize"]
  /\ UNCHANGED <<dataset_file, cache, writer, calls, lastCall, args, loc, ret,
                 cache0>>

\* Probe with a strict cache read: a damaged entry raises instead of counting
\* as a miss.
Probe_Strict(p) ==
  /\ pc[p] = "probe"
  /\ IF args[p].reload
     THEN LET got == LoadDatasetFromDisk(cache, loc[p].save_dir)
          IN /\ trace' = [trace EXCEPT ![p] = Append(@, "probe")]
             /\ IF cache[loc[p].save_dir].state = "corrupt"
                THEN /\ ret' = [ret EXCEPT ![p] = Raised("CacheCorruptionError")]
                     /\ pc' = [pc EXCEPT ![p] = "raised"]
                ELSE IF got.loaded
                THEN /\ ret' = [ret EXCEPT ![p] =
                          Returned(Lipo_tasks, got.all_dataset, got.transformers)]
                     /\ pc' = [pc EXCEPT ![p] = "done"]
                ELSE /\ ret' = ret
                     /\ pc' = [pc EXCEPT ![p] = "featurize"]
     ELSE /\ trace' = trace
          /\ ret' = ret
          /\ pc' = [pc EXCEPT ![p] = "featurize"]
  /\ UNCHANGED <<dataset_file, cache, writer, calls, lastCall, args, loc,
                 cache0>>

\* if reload: loaded, all_dataset, transformers = load_dataset_from_disk(
\* save_dir); if loaded: return Lipo_tasks, all_dataset, transformers
Probe(p) ==
  /\ pc[p] = "probe"
  /\ IF args[p].reload
     THEN LET got == LoadDatasetFromDisk(cache, loc[p].save_dir)
          IN /\ trace' = [trace EXCEPT ![p] = Append(@, "probe")]
             /\ IF got.loaded
                THEN /\ ret' = [ret EXCEPT ![p] =
                          Returned(Lipo_tasks, got.all_dataset, got.transformers)]
                     /\ pc' = [pc EXCEPT ![p] = "done"]
                ELSE /\ ret' = ret
                     /\ pc' = [pc EXCEPT ![p] = "featurize"]
     ELSE /\ trace' = trace
          /\ ret' = ret
          /\ pc' = [pc EXCEPT ![p] = "featurize"]
  /\ UNCHANGED <<dataset_file, cache, writer, calls, lastCall, args, loc,
                 cache0>>

\* featurizer = ...; loader = CSVLoader(...); dataset = loader.featurize(
\* dataset_file, shard_size=8192).  A featurizer that is still a string has
\* no featurize method: the loader fails on it.
Featurize(p) ==
  /\ pc[p] = "featurize"
  /\ trace' = [trace EXCEPT ![p] = Append(@, "featurize")]
  /\ LET obj == FeaturizerObject(args[p].featurizer)
     IN IF obj.class = "str"
        THEN /\ ret' = [ret EXCEPT ![p] = Raised("ConfigurationError")]
             /\ pc' = [pc EXCEPT ![p] = "raised"]
             /\ loc' = loc
        ELSE /\ loc' = [loc EXCEPT ![p].dataset = FeaturizeFile(obj, CsvRows)]
             /\ pc' = [pc EXCEPT ![p] =
                  IF args[p].split = PyNone THEN "fit_all" ELSE "split"]
             /\ ret' = ret
  /\ UNCHANGED <<dataset_file, cache, writer, calls, lastCall, args, cache0>>

\* split is None: transformers = [NormalizationTransformer(transform_y=True,
\* dataset=dataset, move_mean=move_mean)]
FitAll(p) ==
  /\ pc[p] = "fit_all"
  /\ trace' = [trace EXCEPT ![p] = Append(@, "fit")]
  /\ loc' = [loc EXCEPT ![p].transformers =
       <<FitNormalization(loc[p].dataset, args[p].move_mean)>>]
  /\ pc' = [pc EXCEPT ![p] = "transform_all"]
  /\ UNCHANGED <<dataset_file, cache, writer, calls, lastCall, args, ret,
                 cache0>>

\* for transformer in transformers: dataset = transformer.transform(dataset)
TransformAll(p) ==
  /\ pc[p] = "transform_all"
  /\ trace' = [trace EXCEPT ![p] = Append(@, "apply")]
  /\ loc' = [loc EXCEPT ![p].dataset =
       TransformDataset(loc[p].transformers[1], loc[p].dataset)]
  /\ pc' = [pc EXCEPT ![p] = "return_all"]
  /\ UNCHANGED <<dataset_file, cache, writer, calls, lastCall, args, ret,
                 cache0>>

\* ReturnAll with the split path's save copied into the no-split path.
ReturnAll_Persists(p) ==
  /\ pc[p] = "return_all"
  /\ ret' = [ret EXCEPT ![p] =
       Returned(Lipo_tasks, <<loc[p].dataset, NoneDataset, NoneDataset>>,
                loc[p].transformers)]
  /\ IF args[p].reload
     THEN /\ trace' = [trace EXCEPT ![p] = Append(@, "save")]
          /\ cache' = SaveDatasetToDisk(cache, loc[p].save_dir, loc[p].dataset,
                        NoneDataset, NoneDataset, loc[p].transformers)
          /\ writer' = [writer EXCEPT ![loc[p].save_dir] = args[p]]
     ELSE UNCHANGED <<trace, cache, writer>>
  /\ pc' = [pc EXCEPT ![p] = "done"]
  /\ UNCHANGED <<dataset_file, calls, lastCall, args, loc, cache0>>

\* ReturnAll with empty datasets in place of None.
ReturnAll_EmptySlots(p) ==
  /\ pc[p] = "return_all"
  /\ ret' = [ret EXCEPT ![p] =
       Returned(Lipo_tasks, <<loc[p].dataset, <<>>, <<>>>>, loc[p].transformers)]
  /\ pc' = [pc EXCEPT ![p] = "done"]
  /\ UNCHANGED <<dataset_file, cache, writer, calls, lastCall, args, loc,
                 trace, cache0>>

\* return Lipo_tasks, (dataset, None, None), transformers
ReturnAll(p) ==
  /\ pc[p] = "return_all"
  /\ ret' = [ret EXCEPT ![p] =
       Returned(Lipo_tasks, <<loc[p].dataset, NoneDataset, NoneDataset>>,
                loc[p].transformers)]
  /\ pc' = [pc EXCEPT ![p] = "done"]
  /\ UNCHANGED <<dataset_file, cache, writer, calls, lastCall, args, loc,
                 trace, cache0>>

\* The lookup as splitters.get(split, IndexSplitter()): an unknown name gets
\* the index splitter.
SplitterLookupFails_Default(p) ==
  /\ pc[p] = "split"
  /\ args[p].split \notin SplitterNames
  /\ trace' = [trace EXCEPT ![p] = @ \o <<"lookup", "split">>]
  /\ \E order \in SplitOrders("index", Len(loc[p].dataset)) :
       LET parts == TrainValidTestSplit(loc[p].dataset, order)
       IN loc' = [loc EXCEPT ![p].train = parts.train,
                             ![p].valid = parts.valid,
                             ![p].test = parts.test]
  /\ pc' = [pc EXCEPT ![p] = "fit_train"]
  /\ UNCHANGED <<dataset_file, cache, writer, calls, lastCall, args, ret,
                 cache0>>

\* splitter = splitters[split] with a name that is no key of splitters.
SplitterLookupFails(p) ==
  /\ pc[p] = "split"
  /\ args[p].split \notin SplitterNames
  /\ trace' = [trace EXCEPT ![p] = Append(@, "lookup")]
  /\ ret' = [ret EXCEPT ![p] = Raised("KeyError")]
  /\ pc' = [pc EXCEPT ![p] = "raised"]
  /\ UNCHANGED <<dataset_file, cache, writer, calls, lastCall, args, loc,
                 cache0>>

\* splitter = splitters[split];
\* train, valid, test = splitter.train_valid_test_split(dataset)
Split(p) ==
  /\ pc[p] = "split"
  /\ args[p].split \in SplitterNames
  /\ trace' = [trace EXCEPT ![p] = @ \o <<"lookup", "split">>]
  /\ \E order \in SplitOrders(args[p].split, Len(loc[p].dataset)) :
       LET parts == TrainValidTestSplit(loc[p].dataset, order)
       IN loc' = [loc EXCEPT ![p].train = parts.train,
                             ![p].valid = parts.valid,
                             ![p].test = parts.test]
  /\ pc' = [pc EXCEPT ![p] = "fit_train"]
  /\ UNCHANGED <<dataset_file, cache, writer, calls, lastCall, args, ret,
                 cache0>>

\* FitTrain with dataset=dataset, the statistics of all the examples.
FitTrain_OnWholeDataset(p) ==
  /\ pc[p] = "fit_train"
  /\ trace' = [trace EXCEPT ![p] = Append(@, "fit")]
  /\ loc' = [loc EXCEPT ![p].transformers =
       <<FitNormalization(loc[p].dataset, args[p].move_mean)>>]
  /\ pc' = [pc EXCEPT ![p] = "transform_train"]
  /\ UNCHANGED <<dataset_file, cache, writer, calls, lastCall, args, ret,
                 cache0>>

\* FitTrain with the save moved up, ahead of the applies.
FitTrain_SavesFirst(p) ==
  /\ pc[p] = "fit_train"
  /\ trace' = [trace EXCEPT ![p] = Append(@, "fit")]
  /\ loc' = [loc EXCEPT ![p].transformers =
       <<FitNormalization(loc[p].train, args[p].move_mean)>>]
  /\ IF args[p].reload
     THEN /\ cache' = SaveDatasetToDisk(cache, loc[p].save_dir, loc[p].train,
                        loc[p].valid, loc[p].test,
                        <<FitNormalization(loc[p].train, args[p].move_mean)>>)
          /\ writer' = [writer EXCEPT ![loc[p].save_dir] = args[p]]
     ELSE UNCHANGED <<cache, writer>>
  /\ pc' = [pc EXCEPT ![p] = "transform_train"]
  /\ UNCHANGED <<dataset_file, calls, lastCall, args, ret, cache0>>

\* transformers = [NormalizationTransformer(transform_y=True, dataset=train,
\* move_mean=move_mean)]
FitTrain(p) ==
  /\ pc[p] = "fit_train"
  /\ trace' = [trace EXCEPT ![p] = Append(@, "fit")]
  /\ loc' = [loc EXCEPT ![p].transformers =
       <<FitNormalization(loc[p].train, args[p].move_mean)>>]
  /\ pc' = [pc EXCEPT ![p] = "transform_train"]
  /\ UNCHANGED <<dataset_file, cache, writer, calls, lastCall, args, ret,
                 cache0>>

\* train = transformer.transform(train)
TransformTrain(p) ==
  /\ pc[p] = "transform_train"
  /\ trace' = [trace EXCEPT ![p] = Append(@, "apply_train")]
  /\ loc' = [loc EXCEPT ![p].train =
       TransformDataset(loc[p].transformers[1], loc[p].train)]
  /\ pc' = [pc EXCEPT ![p] = "transform_valid"]
  /\ UNCHANGED <<dataset_file, cache, writer, calls, lastCall, args, ret,
                 cache0>>

\* valid = transformer.transform(valid)
TransformValid(p) ==
  /\ pc[p] = "transform_valid"
  /\ trace' = [trace EXCEPT ![p] = Append(@, "apply_valid")]
  /\ loc' = [loc EXCEPT ![p].valid =
       TransformDataset(loc[p].transformers[1], loc[p].valid)]
  /\ pc' = [pc EXCEPT ![p] = "transform_test"]
  /\ UNCHANGED <<dataset_file, cache, writer, calls, lastCall, args, ret,
                 cache0>>

\* test = transformer.transform(test)
TransformTest(p) ==
  /\ pc[p] = "transform_test"
  /\ trace' = [trace EXCEPT ![p] = Append(@, "apply_test")]
  /\ loc' = [loc EXCEPT ![p].test =
       TransformDataset(loc[p].transformers[1], loc[p].test)]
  /\ pc' = [pc EXCEPT ![p] = "save"]
  /\ UNCHANGED <<dataset_file, cache, writer, calls, lastCall, args, ret,
                 cache0>>

\* Save with an empty transformer list.
Save_DropsTransformers(p) ==
  /\ pc[p] = "save"
  /\ IF args[p].reload
     THEN /\ trace' = [trace EXCEPT ![p] = Append(@, "save")]
          /\ cache' = SaveDatasetToDisk(cache, loc[p].save_dir, loc[p].train,
                        loc[p].valid, loc[p].test, <<>>)
          /\ writer' = [writer EXCEPT ![loc[p].save_dir] = args[p]]
     ELSE UNCHANGED <<trace, cache, writer>>
  /\ pc' = [pc EXCEPT ![p] = "return"]
  /\ UNCHANGED <<dataset_file, calls, lastCall, args, loc, ret, cache0>>

\* Save to the directory of move_mean=True whatever move_mean is.
Save_IgnoresMoveMean(p) ==
  /\ pc[p] = "save"
  /\ IF args[p].reload
     THEN /\ trace' = [trace EXCEPT ![p] = Append(@, "save")]
          /\ cache' = SaveDatasetToDisk(cache,
                        DirName(args[p].featurizer, args[p].split, TRUE),
                        loc[p].train, loc[p].valid, loc[p].test,
                        loc[p].transformers)
          /\ writer' = [writer EXCEPT
               ![DirName(args[p].featurizer, args[p].split, TRUE)] = args[p]]
     ELSE UNCHANGED <<trace, cache, writer>>
  /\ pc' = [pc EXCEPT ![p] = "return"]
  /\ UNCHANGED <<dataset_file, calls, lastCall, args, loc, ret, cache0>>

\* Save with valid and test passed in the wrong order.
Save_SwapsValidTest(p) ==
  /\ pc[p] = "save"
  /\ IF args[p].reload
     THEN /\ trace' = [trace EXCEPT ![p] = Append(@, "save")]
          /\ cache' = SaveDatasetToDisk(cache, loc[p].save_dir, loc[p].train,
                        loc[p].test, loc[p].valid, loc[p].transformers)
          /\ writer' = [writer EXCEPT ![loc[p].save_dir] = args[p]]
     ELSE UNCHANGED <<trace, cache, writer>>
  /\ pc' = [pc EXCEPT ![p] = "return"]
  /\ UNCHANGED <<dataset_file, calls, lastCall, args, loc, ret, cache0>>

\* Save without the test of reload.
Save_IgnoresReload(p) ==
  /\ pc[p] = "save"
  /\ trace' = [trace EXCEPT ![p] = Append(@, "save")]
  /\ cache' = SaveDatasetToDisk(cache,
                DirName(args[p].featurizer, args[p].split, args[p].move_mean),
                loc[p].train, loc[p].valid, loc[p].test, loc[p].transformers)
  /\ writer' = [writer EXCEPT
       ![DirName(args[p].featurizer, args[p].split, args[p].move_mean)] =
         args[p]]
  /\ pc' = [pc EXCEPT ![p] = "return"]
  /\ UNCHANGED <<dataset_file, calls, lastCall, args, loc, ret, cache0>>

\* A save that writes a location already holding an entry piece by piece and
\* stops after train and transformers.
Save_Piecewise(p) ==
  /\ pc[p] = "save"
  /\ IF args[p].reload
     THEN /\ trace' = [trace EXCEPT ![p] = Append(@, "save")]
          /\ cache' =
               IF cache[loc[p].save_dir].state = "ok"
               THEN [cache EXCEPT ![loc[p].save_dir].train = loc[p].train,
                                  ![loc[p].save_dir].transformers =
                                     loc[p].transformers]
               ELSE SaveDatasetToDisk(cache, loc[p].save_dir, loc[p].train,
                      loc[p].valid, loc[p].test, loc[p].transformers)
          /\ writer' = [writer EXCEPT ![loc[p].save_dir] = args[p]]
     ELSE UNCHANGED <<trace, cache, writer>>
  /\ pc' = [pc EXCEPT ![p] = "return"]
  /\ UNCHANGED <<dataset_file, calls, lastCall, args, loc, ret, cache0>>

\* if reload: save_dataset_to_disk(save_dir, train, valid, test, transformers)
Save(p) ==
  /\ pc[p] = "save"
  /\ IF args[p].reload
     THEN /\ trace' = [trace EXCEPT ![p] = Append(@, "save")]
          /\ cache' = SaveDatasetToDisk(cache, loc[p].save_dir, loc[p].train,
                        loc[p].valid, loc[p].test, loc[p].transformers)
          /\ writer' = [writer EXCEPT ![loc[p].save_dir] = args[p]]
     ELSE UNCHANGED <<trace, cache, writer>>
  /\ pc' = [pc EXCEPT ![p] = "return"]
  /\ UNCHANGED <<dataset_file, calls, lastCall, args, loc, ret, cache0>>

\* return Lipo_tasks, (train, valid, test), transformers
Return(p) ==
  /\ pc[p] = "return"
  /\ ret' = [ret EXCEPT ![p] =
       Returned(Lipo_tasks, <<loc[p].train, loc[p].valid, loc[p].test>>,
                loc[p].transformers)]
  /\ pc' = [pc EXCEPT ![p] = "done"]
  /\ UNCHANGED <<dataset_file, cache, writer, calls, lastCall, args, loc,
                 trace, cache0>>

\* The steps that call into a collaborator working on disk datasets, and
\* what each adds to the trace.
DiskSteps == {"featurize", "split", "fit_all", "transform_all", "fit_train",
              "transform_train", "transform_valid", "transform_test"}

StepEvents(step) ==
  CASE step = "featurize" -> <<"featurize">>
    [] step = "split" -> <<"lookup", "split">>
    [] step \in {"fit_all", "fit_train"} -> <<"fit">>
    [] step = "transform_all" -> <<"apply">>
    [] step = "transform_train" -> <<"apply_train">>
    [] step = "transform_valid" -> <<"apply_valid">>
    [] step = "transform_test" -> <<"apply_test">>

\* A collaborator raises (a disk failure); load_lipo has no handler, the
\* error leaves the call at that statement.
Raise(p) ==
  /\ pc[p] \in DiskSteps
  /\ pc[p] = "split" => args[p].split \in SplitterNames
  /\ trace' = [trace EXCEPT ![p] = @ \o StepEvents(pc[p])]
  /\ ret' = [ret EXCEPT ![p] = Raised("IOError")]
  /\ loc' = [loc EXCEPT ![p] = [NoLocals EXCEPT !.save_dir = loc[p].save_dir]]
  /\ pc' = [pc EXCEPT ![p] = "raised"]
  /\ UNCHANGED <<dataset_file, cache, writer, calls, lastCall, args, cache0>>

\* The caller has the result (or the exception); the frame is gone.
Finish(p) ==
  /\ pc[p] \in {"done", "raised"}
  /\ lastCall' = IF pc[p] = "done" /\ args[p].reload
                 THEN [args |-> args[p], ret |-> ret[p], trace |-> trace[p]]
                 ELSE NoCall
  /\ pc' = [pc EXCEPT ![p] = "idle"]
  /\ args' = [args EXCEPT ![p] = NoArgs]
  /\ loc' = [loc EXCEPT ![p] = NoLocals]
  /\ ret' = [ret EXCEPT ![p] = NoRet]
  /\ trace' = [trace EXCEPT ![p] = <<>>]
  /\ cache0' = [cache0 EXCEPT ![p] = NoCache]
  /\ UNCHANGED <<dataset_file, cache, writer, calls>>

\* Between calls, a cache entry on disk gets damaged.
CorruptEntry(d) ==
  /\ \A q \in Procs : pc[q] = "idle"
  /\ cache[d].state = "ok"
  /\ cache' = [cache EXCEPT ![d] = Corrupt]
  /\ writer' = [writer EXCEPT ![d] = NoArgs]
  /\ lastCall' = NoCall
  /\ UNCHANGED <<dataset_file, calls, pc, args, loc, ret, trace, cache0>>

\* Between calls, a cache entry is deleted by hand.
DeleteEntry(d) ==
  /\ \A q \in Procs : pc[q] = "idle"
  /\ cache[d].state # "missing"
  /\ cache' = [cache EXCEPT ![d] = Missing]
  /\ writer' = [writer EXCEPT ![d] = NoArgs]
  /\ lastCall' = NoCall
  /\ UNCHANGED <<dataset_file, calls, pc, args, loc, ret, trace, cache0>>

\* Between calls, Lipophilicity.csv is deleted by hand.
DeleteDatasetFile ==
  /\ \A q \in Procs : pc[q] = "idle"
  /\ dataset_file
  /\ dataset_file' = FALSE
  /\ lastCall' = NoCall
  /\ UNCHANGED <<cache, writer, calls, pc, args, loc, ret, trace, cache0>>

Next ==
  \/ \E f \in FeaturizerInputs : \E s \in SplitInputs :
       \E r \in BOOLEAN : \E m \in BOOLEAN : Call(Caller, f, s, r, m)
  \/ \E p \in Procs : CheckFile(p)
  \/ \E p \in Procs : Download(p)
  \/ \E p \in Procs : DownloadFails(p)
  \/ \E p \in Procs : Probe(p)
  \/ \E p \in Procs : Featurize(p)
  \/ \E p \in Procs : FitAll(p)
  \/ \E p \in Procs : TransformAll(p)
  \/ \E p \in Procs : ReturnAll(p)
  \/ \E p \in Procs : SplitterLookupFails(p)
  \/ \E p \in Procs : Split(p)
  \/ \E p \in Procs : FitTrain(p)
  \/ \E p \in Procs : TransformTrain(p)
  \/ \E p \in Procs : TransformValid(p)
  \/ \E p \in Procs : TransformTest(p)
  \/ \E p \in Procs : Save(p)
  \/ \E p \in Procs : Return(p)
  \/ \E p \in Procs : Raise(p)
  \/ \E p \in Procs : Finish(p)
  \/ \E d \in AllDirs : CorruptEntry(d)
  \/ \E d \in AllDirs : DeleteEntry(d)
  \/ DeleteDatasetFile

Spec == Init /\ [][Next]_vars

\* Two processes of the operating system call load_lipo with reload set and
\* arguments that lead to the same save_dir; nothing in load_lipo takes a
\* lock, so their statements interleave freely.  Each process calls once.
CallConc(p, featurizer, split, move_mean) ==
  /\ pc[p] = "idle"
  /\ ~args[p].given
  /\ calls < MaxCalls
  /\ \A q \in Procs \ {p} :
       args[q].given => loc[q].save_dir = DirName(featurizer, split, move_mean)
  /\ calls' = calls + 1
  /\ args' = [args EXCEPT ![p] =
       [featurizer |-> featurizer, split |-> split, reload |-> TRUE,
        move_mean |-> move_mean, given |-> TRUE]]
  /\ loc' = [loc EXCEPT ![p] =
       [NoLocals EXCEPT !.save_dir = DirName(featurizer, split, move_mean)]]
  /\ ret' = [ret EXCEPT ![p] = NoRet]
  /\ trace' = [trace EXCEPT ![p] = <<>>]
  /\ cache0' = [cache0 EXCEPT ![p] = cache]
  /\ pc' = [pc EXCEPT ![p] = "check_file"]
  /\ UNCHANGED <<dataset_file, cache, writer, lastCall>>

NextConc ==
  \/ \E p \in Procs : \E f \in FeaturizerInputs : \E s \in SplitInputs :
       \E m \in BOOLEAN : CallConc(p, f, s, m)
  \/ \E p \in Procs : CheckFile(p)
  \/ \E p \in Procs : Download(p)
  \/ \E p \in Procs : DownloadFails(p)
  \/ \E p \in Procs : Probe(p)
  \/ \E p \in Procs : Featurize(p)
  \/ \E p \in Procs : FitAll(p)
  \/ \E p \in Procs : TransformAll(p)
  \/ \E p \in Procs : ReturnAll(p)
  \/ \E p \in Procs : SplitterLookupFails(p)
  \/ \E p \in Procs : Split(p)
  \/ \E p \in Procs : FitTrain(p)
  \/ \E p \in Procs : TransformTrain(p)
  \/ \E p \in Procs : TransformValid(p)
  \/ \E p \in Procs : TransformTest(p)
  \/ \E p \in Procs : Save(p)
  \/ \E p \in Procs : Return(p)
  \/ \E p \in Procs : Raise(p)

SpecConc == Init /\ [][NextConc]_vars

(* ------------------------------ properties ---------------------------- *)

\* The collaborator calls a call has made so far.
Events(p) == {trace[p][i] : i \in 1..Len(trace[p])}

\* A trace that ends with the cache probe: a returned call with such a trace
\* returned what the probe found.
HitPath(t) == Len(t) > 0 /\ t[Len(t)] = "probe"

\* The cache location of a call's arguments.
KeyOf(a) == DirName(a.featurizer, a.split, a.move_mean)

\* The names the if/elif chain of load_lipo knows.
KnownFeaturizer(featurizer) == FeaturizerObject(featurizer).class # "str"

\* C1: a call with reload set whose cache location held an entry when the
\* call began returns that entry and makes no collaborator call but the
\* cache probe: no existence check of the raw file, no download, no
\* featurizer, splitter or transformer.
C1_HitTouchesOnlyCache ==
  \A p \in Procs :
    (args[p].given /\ args[p].reload /\ cache0[p][KeyOf(args[p])].state = "ok")
    => /\ Events(p) \subseteq {"probe"}
       /\ pc[p] # "raised"

\* C2, as stated: two calls in a row with the same arguments and reload set
\* return equal datasets and transformers, the first having computed them and
\* the second having hit the cache.
C2_SecondCallHitsCache ==
  \A p \in Procs :
    (pc[p] = "done" /\ args[p].reload /\ lastCall.args = args[p])
    => /\ ret[p].all_dataset = lastCall.ret.all_dataset
       /\ ret[p].transformers = lastCall.ret.transformers
       /\ ~HitPath(lastCall.trace)
       /\ HitPath(trace[p])

\* C2, amended: two calls in a row with the same arguments and reload set
\* return equal datasets and transformers; with a split the second call hits
\* the cache (and the first computed the result unless it hit the cache
\* itself), with split None neither call hits the cache: both compute.
C2_Idempotent ==
  \A p \in Procs :
    (pc[p] = "done" /\ args[p].reload /\ lastCall.args = args[p])
    => /\ ret[p].all_dataset = lastCall.ret.all_dataset
       /\ ret[p].transformers = lastCall.ret.transformers
       /\ args[p].split # PyNone => HitPath(trace[p])
       /\ args[p].split = PyNone
            => ~HitPath(trace[p]) /\ ~HitPath(lastCall.trace)

\* A second call with a random split returns from the cache what the first
\* call computed.
C2_Witness ==
  \E p \in Procs :
    /\ pc[p] = "done" /\ args[p].reload /\ lastCall.args = args[p]
    /\ args[p].split = "random"
    /\ HitPath(trace[p]) /\ ~HitPath(lastCall.trace)
    /\ "split" \in {lastCall.trace[i] : i \in 1..Len(lastCall.trace)}

\* C3: arguments that differ only in move_mean have distinct cache
\* locations, and a call never returns from the cache an entry that a call
\* with the other value of move_mean wrote.
C3_MoveMeanSeparation ==
  /\ \A f \in FeaturizerInputs : \A s \in SplitInputs :
       DirName(f, s, TRUE) # DirName(f, s, FALSE)
  /\ \A p \in Procs :
       (pc[p] = "done" /\ HitPath(trace[p]))
       => writer[loc[p].save_dir].move_mean = args[p].move_mean

\* C4: a call whose featurizer name the loader does not know fails with a
\* ConfigurationError before any file I/O: it makes no collaborator call
\* (no existence check, download, cache probe or featurization) and never
\* returns.
C4_UnknownFeaturizerFailsFirst ==
  \A p \in Procs :
    (args[p].given /\ ~KnownFeaturizer(args[p].featurizer))
    => /\ Events(p) = {}
       /\ pc[p] # "done"
       /\ pc[p] = "raised" => ret[p].error = "ConfigurationError"

\* C5: from its first step to its last, a call with split None leaves the
\* cache store as it was when the call began, with reload set or not.
C5_NoSplitNeverWrites ==
  \A p \in Procs :
    (args[p].given /\ args[p].split = PyNone) => cache = cache0[p]

\* A call with split None and reload set has returned, from a data directory
\* whose cache is not empty.
C5_Witness ==
  \E p \in Procs :
    /\ pc[p] = "done" /\ args[p].split = PyNone /\ args[p].reload
    /\ "apply" \in Events(p)
    /\ cache # NoCache

\* The collaborator calls of a call that computes its result, in order: the
\* existence check, the download when the file was missing, the probe when
\* reload is set, then the pipeline, then the save when reload is set.
ComputeTrace(a, downloaded) ==
  <<"exists">>
  \o (IF downloaded THEN <<"download">> ELSE <<>>)
  \o (IF a.reload THEN <<"probe">> ELSE <<>>)
  \o <<"featurize">>
  \o (IF a.split = PyNone
      THEN <<"fit", "apply">>
      ELSE <<"lookup", "split", "fit", "apply_train", "apply_valid",
             "apply_test">> \o (IF a.reload THEN <<"save">> ELSE <<>>))

\* C6: a call with reload false never probes the cache and never saves to
\* it: the cache store stays as it was when the call began, and when the call
\* returns it has run the whole pipeline (featurize, split when asked for,
\* fit, apply), whether or not an entry exists at its cache location.
C6_NoReloadNoCache ==
  \A p \in Procs :
    (args[p].given /\ ~args[p].reload)
    => /\ cache = cache0[p]
       /\ Events(p) \cap {"probe", "save"} = {}
       /\ pc[p] = "done"
            => trace[p] = ComputeTrace(args[p], "download" \in Events(p))

\* A call with reload false has returned while the cache holds an entry at
\* the location of its arguments.
C6_Witness ==
  \E p \in Procs :
    /\ pc[p] = "done" /\ ~args[p].reload
    /\ cache[KeyOf(args[p])].state = "ok"
    /\ "apply_test" \in Events(p)

\* C7: a call that has failed, at whatever step, leaves the cache store as it
\* was when the call began; and a save is the last collaborator call of a
\* call, made after featurize, split, fit and the three applies.
C7_FailureLeavesCache ==
  \A p \in Procs :
    /\ pc[p] = "raised" => cache = cache0[p]
    /\ "save" \in Events(p)
         => /\ pc[p] \in {"return", "done"}
            /\ trace[p] = ComputeTrace(args[p], "download" \in Events(p))

\* A call with reload set and a known split has failed in the apply to the
\* test subset, the last step before the save.
C7_Witness ==
  \E p \in Procs :
    /\ pc[p] = "raised" /\ args[p].reload
    /\ args[p].split \in SplitterNames
    /\ trace[p][Len(trace[p])] = "apply_test"

C9_UnknownSplitFails ==
  \A p \in Procs :
    (args[p].given /\ args[p].split # PyNone
     /\ args[p].split \notin SplitterNames)
    => /\ pc[p] = "done" => HitPath(trace[p])
       /\ Events(p) \cap {"split", "fit", "save"} = {}
       /\ (pc[p] = "raised" /\ "lookup" \in Events(p))
            => ret[p].error = "KeyError"

\* A call with an unknown split has missed the cache, featurized, and failed
\* in the splitter lookup.
C9_Witness ==
  \E p \in Procs :
    /\ pc[p] = "raised" /\ args[p].split = "bogus" /\ args[p].reload
    /\ trace[p][Len(trace[p])] = "lookup"
    /\ ret[p].error = "KeyError"

\* C10: a call with split None that returns, returns as train slot the whole
\* featurized dataset normalized with the statistics of the whole dataset,
\* and None, not an empty dataset, as validation and test slots.
C10_NoSplitResult ==
  \A p \in Procs :
    (pc[p] = "done" /\ args[p].split = PyNone)
    => LET whole == FeaturizeFile(FeaturizerObject(args[p].featurizer), CsvRows)
           t == FitNormalization(whole, args[p].move_mean)
       IN /\ ret[p].status = "returned"
          /\ ret[p].all_dataset[1] = TransformDataset(t, whole)
          /\ ret[p].all_dataset[2] = NoneDataset
          /\ ret[p].all_dataset[3] = NoneDataset
          /\ ret[p].all_dataset[2] # <<>> /\ ret[p].all_dataset[3] # <<>>

\* A call with split None has returned a dataset of all the rows.
C10_Witness ==
  \E p \in Procs :
    /\ pc[p] = "done" /\ args[p].split = PyNone
    /\ Len(ret[p].all_dataset[1]) = NumRecords

\* C11: every call that returns, from the cache, on the no-split path or on
\* the split path, returns a list of exactly one transformer, the
\* normalization of the labels (transform_y) with the call's move_mean on the
\* two computing paths.
C11_OneTransformer ==
  \A p \in Procs :
    pc[p] = "done"
    => /\ Len(ret[p].transformers) = 1
       /\ ret[p].transformers[1].transform_y
       /\ ~HitPath(trace[p])
            => ret[p].transformers[1].move_mean = args[p].move_mean

\* A call has returned from the cache the one transformer that an earlier
\* call saved.
C11_Witness ==
  \E p \in Procs :
    /\ pc[p] = "done" /\ HitPath(trace[p])
    /\ Len(ret[p].transformers) = 1
    /\ cache0[p] # NoCache

\* C12: every call that returns, from the cache, on the no-split path or on
\* the split path, returns the task list ["exp"].
C12_TaskList ==
  \A p \in Procs : pc[p] = "done" => ret[p].tasks = <<"exp">>

\* Calls with known names have returned the task list on the split path after
\* a save, and on the cache-hit path.
C12_Witness ==
  \E p \in Procs :
    /\ pc[p] = "done" /\ ret[p].tasks = <<"exp">>
    /\ KnownFeaturizer(args[p].featurizer)
    /\ args[p].split \in SplitterNames
    /\ HitPath(trace[p])
    /\ "save" \in {lastCall.trace[i] : i \in 1..Len(lastCall.trace)}

\* The examples of a returned dataset slot as the featurizer made them,
\* before any transform (an example's id is its row in the file).
Untransformed(a, ds) ==
  LET whole == FeaturizeFile(FeaturizerObject(a.featurizer), CsvRows)
  IN [i \in 1..Len(ds) |-> whole[ds[i].id]]

\* What must come right before an event of the trace.
Predecessor(e) ==
  CASE e \in {"apply", "apply_train"} -> "fit"
    [] e = "apply_valid" -> "apply_train"
    [] e = "apply_test" -> "apply_valid"

\* C13: a call fits the normalization at most once, and exactly once when it
\* returns a computed result; every apply comes after the fit, in the order
\* train, validation, test; the statistics returned are those of the
\* untransformed train examples alone (of all the examples when split is
\* None), whatever the validation and test examples are, and every returned
\* subset is its untransformed examples under these same statistics.
C13_SingleFitBeforeApply ==
  \A p \in Procs :
    /\ Cardinality({i \in 1..Len(trace[p]) : trace[p][i] = "fit"}) <= 1
    /\ \A i \in 1..Len(trace[p]) :
         trace[p][i] \in {"apply", "apply_train", "apply_valid", "apply_test"}
         => i > 1 /\ trace[p][i - 1] = Predecessor(trace[p][i])
    /\ (pc[p] = "done" /\ ~HitPath(trace[p]))
       => LET t == FitNormalization(
                     Untransformed(args[p], ret[p].all_dataset[1]),
                     args[p].move_mean)
              n == IF args[p].split = PyNone THEN 1 ELSE 3
          IN /\ Cardinality({i \in 1..Len(trace[p]) : trace[p][i] = "fit"}) = 1
             /\ ret[p].transformers = <<t>>
             /\ args[p].split = PyNone
                  => Len(ret[p].all_dataset[1]) = NumRecords
             /\ \A k \in 1..n :
                  ret[p].all_dataset[k] =
                    TransformDataset(t, Untransformed(args[p],
                                                      ret[p].all_dataset[k]))

\* A call has returned a random split whose train subset is not the head of
\* the file and whose test subset is not empty, after three applies.
C13_Witness ==
  \E p \in Procs :
    /\ pc[p] = "done" /\ args[p].split = "random"
    /\ trace[p][Len(trace[p])] = "apply_test"
    /\ ret[p].all_dataset[1][1].id # 1
    /\ Len(ret[p].all_dataset[3]) > 0

\* The cache entry that holds what a call returned.
EntryOf(r) ==
  [state |-> "ok", train |-> r.all_dataset[1], valid |-> r.all_dataset[2],
   test |-> r.all_dataset[3], transformers |-> r.transformers]

\* C14: when a call with reload set and a split that is a key of splitters
\* has returned a computed result, the cache holds at the location of the
\* call's featurizer, split and move_mean exactly the train, valid, test and
\* transformers the call returns, and every other location holds what it held
\* when the call began.
C14_SavedWhatIsReturned ==
  \A p \in Procs :
    (pc[p] = "done" /\ args[p].reload /\ args[p].split \in SplitterNames
     /\ ~HitPath(trace[p]))
    => /\ cache[KeyOf(args[p])] = EntryOf(ret[p])
       /\ \A d \in AllDirs \ {KeyOf(args[p])} : cache[d] = cache0[p][d]

\* A call with move_mean false has saved a random split into a cache that
\* already held another entry.
C14_Witness ==
  \E p \in Procs :
    /\ pc[p] = "done" /\ args[p].reload /\ args[p].split = "random"
    /\ ~args[p].move_mean
    /\ "save" \in Events(p)
    /\ cache[KeyOf(args[p])].state = "ok"
    /\ \E d \in AllDirs \ {KeyOf(args[p])} : cache[d].state = "ok"

\* C15: no step of a call changes a cache location that holds an entry, and
\* a call saves only to a location that holds none: an entry is written at
\* most once.  (Callers do not overlap; the steps between calls, a deletion
\* by hand or a damaged entry, are not steps of a call.)
C15_WriteOnce ==
  [][(\E p \in Procs : pc[p] # "idle")
     => /\ \A d \in AllDirs : cache[d].state = "ok" => cache'[d] = cache[d]
        /\ \A p \in Procs :
             ("save" \notin Events(p)
              /\ "save" \in {trace'[p][i] : i \in 1..Len(trace'[p])})
             => cache[loc[p].save_dir].state # "ok"]_vars

\* A call with reload set has run to its end and returned while the cache
\* held an entry at its location from before the call, and left the cache as
\* it was.
C15_Witness ==
  \E p \in Procs :
    /\ pc[p] = "done" /\ args[p].reload
    /\ cache0[p][KeyOf(args[p])].state = "ok"
    /\ cache = cache0[p]

\* The ids of the examples in the three slots of a split result, in order.
SlotIds(all_dataset) ==
  LET whole == all_dataset[1] \o all_dataset[2] \o all_dataset[3]
  IN [i \in 1..Len(whole) |-> whole[i].id]

\* A complete result of the pipeline run with arguments a: three slots that
\* together hold every row of the file once, one transformer fitted on the
\* train slot, and all three slots transformed by it.  With no split: the
\* whole file in the first slot and None twice.
CompleteFor(a, all_dataset, transformers) ==
  /\ Len(all_dataset) = 3
  /\ Len(transformers) = 1
  /\ IF a.split = PyNone
     THEN /\ all_dataset[2] = NoneDataset /\ all_dataset[3] = NoneDataset
          /\ Len(all_dataset[1]) = NumRecords
          /\ transformers[1] =
               FitNormalization(Untransformed(a, all_dataset[1]), a.move_mean)
          /\ all_dataset[1] =
               TransformDataset(transformers[1],
                                Untransformed(a, all_dataset[1]))
     ELSE /\ Len(SlotIds(all_dataset)) = NumRecords
          /\ {SlotIds(all_dataset)[i] : i \in 1..NumRecords} = 1..NumRecords
          /\ transformers[1] =
               FitNormalization(Untransformed(a, all_dataset[1]), a.move_mean)
          /\ \A k \in 1..3 :
               all_dataset[k] =
                 TransformDataset(transformers[1],
                                  Untransformed(a, all_dataset[k]))

C17_NoEntryForNoSplit ==
  /\ \A f \in FeaturizerInputs : \A m \in BOOLEAN :
       cache[DirName(f, PyNone, m)].state = "missing"
  /\ \A p \in Procs :
       (args[p].given /\ args[p].split = PyNone /\ args[p].reload)
       => /\ (pc[p] # "raised" /\ HitPath(trace[p])) => pc[p] = "featurize"
          /\ pc[p] = "done"
               => trace[p] = ComputeTrace(args[p], "download" \in Events(p))

\* The second of two calls in a row with split None and reload set has
\* probed, missed and computed its result like the first.
C17_Witness ==
  \E p \in Procs :
    /\ pc[p] = "done" /\ args[p].split = PyNone /\ args[p].reload
    /\ lastCall.args = args[p]
    /\ "probe" \in Events(p) /\ "apply" \in Events(p)

\* The featurizer names of the if/elif chain and the split values load_lipo
\* accepts.
KnownFeaturizers == {"ECFP", "GraphConv", "Weave", "Raw"}
KnownSplits == SplitterNames \cup {PyNone}

\* C18: the cache location of a call with a known featurizer and an accepted
\* split is the location of no other triple of a known featurizer, an
\* accepted split and move_mean; and when such a call returns from the cache
\* it returns the entry at its location, which a call with the same
\* featurizer, split and move_mean saved.
C18_CacheCoherence ==
  \A p \in Procs :
    (args[p].given /\ args[p].reload
     /\ args[p].featurizer \in KnownFeaturizers
     /\ args[p].split \in KnownSplits)
    => /\ \A f \in KnownFeaturizers : \A s \in KnownSplits : \A m \in BOOLEAN :
            DirName(f, s, m) = loc[p].save_dir
            => /\ f = args[p].featurizer
               /\ s = args[p].split
               /\ m = args[p].move_mean
       /\ (pc[p] = "done" /\ HitPath(trace[p]))
          => /\ writer[loc[p].save_dir].given
             /\ writer[loc[p].save_dir].featurizer = args[p].featurizer
             /\ writer[loc[p].save_dir].split = args[p].split
             /\ writer[loc[p].save_dir].move_mean = args[p].move_mean
             /\ cache[loc[p].save_dir] = EntryOf(ret[p])
             /\ ret[p].transformers[1].move_mean = args[p].move_mean

\* A call with known names and move_mean false has returned from the cache
\* the entry that the call before it, with the same arguments, saved.
C18_Witness ==
  \E p \in Procs :
    /\ pc[p] = "done" /\ HitPath(trace[p])
    /\ args[p].featurizer \in KnownFeaturizers
    /\ ~args[p].move_mean
    /\ lastCall.args = args[p]
    /\ "save" \in {lastCall.trace[i] : i \in 1..Len(lastCall.trace)}
====
